---------------------------- MODULE Spec2Model ----------------------------
(***************************************************************************)
(* State-machine model of the desktop pet of src/.res/r.py: the animation  *)
(* scheduler (DesktopPet._start_animation and friends), the run state      *)
(* (AnimationState), the frame cache (ResourceManager.load_frames) and the *)
(* environmental triggers (timers and input events of DesktopPet).         *)
(*                                                                         *)
(* Every handler runs to completion (single Qt thread), so each handler is *)
(* one action.  Handlers are written as operators from a pet record to a   *)
(* pet record, composed in the order of the calls of the source.           *)
(***************************************************************************)
EXTENDS Integers, Sequences, FiniteSets

\* ------------------------------------------------------------------ bounds
\* Frame sequences longer than MaxFrames are cut to MaxFrames frames.
MaxFrames == 2
\* The number of calls of on_complete hooks a behaviour is followed for.
MaxHookCalls == 2
\* The right edge of the available screen geometry (the left edge is 0).
ScreenRight == 215

\* ------------------------------------------------------- program constants
\* AnimationPriority
IDLE == 0
BACKGROUND == 10
INTERACTION == 20
SPECIAL == 30
SYSTEM == 40
FORCE == 50

\* DesktopPet.original_size (a square, so one side stands for the QSize)
original_size == 200
\* the step of _move_window_horizontally, in pixels
WalkStep == 5
\* the free-roam sit duration, in seconds
SitDuration == 300
\* _check_idle_time: seconds without interaction before sleep
IdleLimit == 600
\* _check_anger_condition: window in seconds and number of clicks
ClickWindow == 10
AngerClicks == 15
\* _update_status: the force-sleep hour and the usage threshold in percent
ForceSleepHour == 1
UsageLimit == 90
\* thresholds of the random branches
BlinkChance == 5
BurpChance == 30
LeftWalkChance == 48
RightWalkChance == 96
ShakeBelow == 10
ConfusedBelow == 20
\* AnimationConfig.loops value standing for "loop forever"
Forever == -1

NoneId == "None"
NoSize == 0

Min(a, b) == IF a < b THEN a ELSE b

\* ------------------------------------------------------------ the catalog
\* DesktopPet.ANIMATIONS.  scale2 is size_scale in halves (0.5 -> 1, 1.0 -> 2,
\* 1.5 -> 3), so that int(size * size_scale) = (size * scale2) \div 2.
Cfg(fo, fr, lo, pr, it, sc) ==
    [folder |-> fo, frames |-> fr, loops |-> lo, priority |-> pr,
     interruptible |-> it, scale2 |-> sc]

ANIMATIONS ==
    [a \in {"MAIN", "BLINK", "ANGER", "WALK_AWAY", "HEIXIU", "DRINK_MILK",
            "CONFUSED", "EAT_BURGER", "EAT_CHICKEN", "SHAKE", "ROLL", "GUITAR",
            "PLAY_HEIXIU", "BURP", "ANXIETY", "LEFT_WALK", "RIGHT_WALK", "SIT"} |->
       CASE a = "MAIN"        -> Cfg("xiaoheichuchang2", 34, 1, IDLE, TRUE, 2)
         [] a = "BLINK"       -> Cfg("zhayan", 2, 1, BACKGROUND, TRUE, 2)
         [] a = "ANGER"       -> Cfg("shengqi", 2, 3, SPECIAL, FALSE, 2)
         [] a = "WALK_AWAY"   -> Cfg("zoukai", 20, 1, SPECIAL, FALSE, 2)
         [] a = "HEIXIU"      -> Cfg("heixiu", 39, 1, INTERACTION, TRUE, 1)
         [] a = "DRINK_MILK"  -> Cfg("henai", 163, 3, INTERACTION, TRUE, 2)
         [] a = "CONFUSED"    -> Cfg("yihuo", 39, 1, INTERACTION, TRUE, 2)
         [] a = "EAT_BURGER"  -> Cfg("chihanbao", 112, 3, INTERACTION, TRUE, 2)
         [] a = "EAT_CHICKEN" -> Cfg("chijitui", 45, 3, INTERACTION, TRUE, 2)
         [] a = "SHAKE"       -> Cfg("yao", 28, 1, INTERACTION, TRUE, 2)
         [] a = "ROLL"        -> Cfg("gun1", 118, 1, INTERACTION, TRUE, 3)
         [] a = "GUITAR"      -> Cfg("tanjita", 30, 3, INTERACTION, TRUE, 2)
         [] a = "PLAY_HEIXIU" -> Cfg("wanheixiu", 33, 3, INTERACTION, TRUE, 2)
         [] a = "BURP"        -> Cfg("dage1", 45, 1, INTERACTION, FALSE, 2)
         [] a = "ANXIETY"     -> Cfg("jiaolv", 2, Forever, SYSTEM, FALSE, 2)
         [] a = "LEFT_WALK"   -> Cfg("left_walk", 30, Forever, SPECIAL, TRUE, 2)
         [] a = "RIGHT_WALK"  -> Cfg("right_walk", 30, Forever, SPECIAL, TRUE, 2)
         [] a = "SIT"         -> Cfg("sit", 1, Forever, SPECIAL, TRUE, 2)]

Catalog == DOMAIN ANIMATIONS
\* AnimationType members that are no key of ANIMATIONS
SleepIds == {"SLEEP", "HEIXIU_SLEEP"}
Folders == {ANIMATIONS[a].folder : a \in Catalog}

\* config.frames, cut to the model's bound on the length of a frame sequence
FrameCount(a) == Min(ANIMATIONS[a].frames, MaxFrames)

VARIABLES
    pet,      \* the DesktopPet object with its AnimationState and ResourceManager
    files,    \* the resource directories: folder -> set of the i with i.png loadable
    now,      \* time.time(), in seconds
    ev        \* what the last handler did (observation only, never read by a handler)

vars == <<pet, files, now, ev>>

\* --------------------------------------------------------- AnimationState
\* can_interrupt with a non-strict comparison
can_interrupt_ge(s, new_priority) ==
    IF ~s.is_playing THEN TRUE ELSE new_priority >= s.current_priority

can_interrupt(s, new_priority) ==
    IF ~s.is_playing THEN TRUE ELSE new_priority > s.current_priority

\* reset() leaving the loop counter as it is
reset_keeping_loops(s) ==
    [s EXCEPT !.current_animation = NoneId,
              !.current_priority = IDLE,
              !.is_playing = FALSE,
              !.current_index = 0,
              !.cached_frames = <<>>]

reset(s) ==
    [s EXCEPT !.current_animation = NoneId,
              !.current_priority = IDLE,
              !.is_playing = FALSE,
              !.current_index = 0,
              !.loop_count = 0,
              !.cached_frames = <<>>]

\* -------------------------------------------------------- ResourceManager
RECURSIVE LoadedFrames(_, _, _)
\* the loop of load_frames: the i in from..total whose file loads, in order
LoadedFrames(present, from, total) ==
    IF from > total THEN <<>>
    ELSE (IF from \in present THEN <<from>> ELSE <<>>)
         \o LoadedFrames(present, from + 1, total)

\* the caches of the ResourceManager that frames go through: frame_cache maps
\* <<folder, size>> to a frame list, base_pixmap_cache holds the <<folder, i>>
\* whose file i.png was decoded
resource_manager(s) ==
    [frame_cache |-> s.frame_cache, base_pixmap_cache |-> s.base_pixmap_cache]

\* the files _load_and_scale_pixmap decodes for frames, given base_pixmap_cache
decoded_files(base, folder_name, frames) ==
    {<<folder_name, frames[i]>> : i \in 1 .. Len(frames)} \ base

\* load_frames reading the files again on every call
load_frames_uncached(fs, cache, folder_name, total_frames, size) ==
    IF folder_name \notin DOMAIN fs
    THEN [frames |-> <<>>, cache |-> cache, decoded |-> 0]
    ELSE LET frames == LoadedFrames(fs[folder_name], 1, total_frames) IN
         [frames |-> frames, cache |-> cache, decoded |-> Len(frames)]

\* load_frames: [frames, cache, decoded], cache being the caches after the call
\* and decoded the number of files the call decoded
load_frames(fs, cache, folder_name, total_frames, size) ==
    LET cache_key == <<folder_name, size>> IN
    IF cache_key \in DOMAIN cache.frame_cache
    THEN [frames |-> cache.frame_cache[cache_key], cache |-> cache, decoded |-> 0]
    ELSE IF folder_name \notin DOMAIN fs
    THEN [frames |-> <<>>, cache |-> cache, decoded |-> 0]
    ELSE LET frames == LoadedFrames(fs[folder_name], 1, total_frames)
             fresh == decoded_files(cache.base_pixmap_cache, folder_name, frames)
         IN [frames |-> frames,
             cache |->
               [frame_cache |->
                  [k \in DOMAIN cache.frame_cache \cup {cache_key} |->
                     IF k = cache_key THEN frames ELSE cache.frame_cache[k]],
                base_pixmap_cache |-> cache.base_pixmap_cache \cup fresh],
             decoded |-> Cardinality(fresh)]

\* s with the caches of the ResourceManager replaced by cache
with_caches(s, cache) ==
    [s EXCEPT !.frame_cache = cache.frame_cache,
              !.base_pixmap_cache = cache.base_pixmap_cache]

\* preload_resources: the first frame only of the priority animations (SLEEP is
\* no key of ANIMATIONS and is skipped)
RECURSIVE preload_resources(_, _, _)
preload_resources(fs, cache, todo) ==
    IF todo = <<>> THEN cache
    ELSE LET config == ANIMATIONS[Head(todo)]
             size == (original_size * config.scale2) \div 2
         IN preload_resources(fs,
                load_frames(fs, cache, config.folder, Min(1, config.frames), size).cache,
                Tail(todo))

\* _get_animation_frames: [frames, cache]
get_animation_frames(fs, s, animation_type) ==
    IF animation_type \notin Catalog
    THEN [frames |-> <<>>, cache |-> resource_manager(s), decoded |-> 0]
    ELSE LET config == ANIMATIONS[animation_type]
             scaled_size == (s.win_size * config.scale2) \div 2
         IN load_frames(fs, resource_manager(s), config.folder,
                        FrameCount(animation_type), scaled_size)


\* -------------------------------------------------------------- scheduler
\* _stop_current_animation leaving the free-roam timer alone
stop_current_animation_keeping_roam(s) ==
    [s EXCEPT !.animation_timer = FALSE,
              !.win_size = IF s.anim_original_size # NoSize
                           THEN s.anim_original_size ELSE @,
              !.anim_original_size = NoSize]

\* _stop_current_animation leaving the window and the saved size as they are
stop_current_animation_keeping_size(s) ==
    [s EXCEPT !.animation_timer = FALSE,
              !.free_active_timer = FALSE]

\* _stop_current_animation (the media player belongs to the presentation sink)
stop_current_animation(s) ==
    [s EXCEPT !.animation_timer = FALSE,
              !.free_active_timer = FALSE,
              !.win_size = IF s.anim_original_size # NoSize
                           THEN s.anim_original_size ELSE @,
              !.anim_original_size = NoSize]

\* the check of _start_animation without the force flag
may_start_unforced(s, animation_type, force) ==
    can_interrupt(s, ANIMATIONS[animation_type].priority)

\* the check of _start_animation that lets a request through
may_start(s, animation_type, force) ==
    force \/ can_interrupt(s, ANIMATIONS[animation_type].priority)

\* _start_animation: [pet, ret], ret being the value returned
start_animation(fs, s, animation_type, force) ==
    IF animation_type \notin Catalog THEN [pet |-> s, ret |-> FALSE]
    ELSE IF ~may_start(s, animation_type, force) THEN [pet |-> s, ret |-> FALSE]
    ELSE
      LET config == ANIMATIONS[animation_type]
          s1 == stop_current_animation(s)
          got == get_animation_frames(fs, s1, animation_type)
          s2 == with_caches(s1, got.cache)
      IN IF got.frames = <<>> THEN [pet |-> s2, ret |-> FALSE]
         ELSE [pet |->
                 [s2 EXCEPT !.current_animation = animation_type,
                            !.current_priority = config.priority,
                            !.is_playing = TRUE,
                            !.current_index = 0,
                            !.loop_count = 0,
                            !.cached_frames = got.frames,
                            !.anim_original_size =
                                IF config.scale2 # 2 THEN s2.win_size ELSE @,
                            !.win_size =
                                IF config.scale2 # 2
                                THEN (original_size * config.scale2) \div 2 ELSE @,
                            !.animation_timer = TRUE],
               ret |-> TRUE]

EatingIds == {"DRINK_MILK", "EAT_BURGER", "EAT_CHICKEN"}

\* the chain with the burp sample compared strictly
chained_after_strict(current_type, burp) ==
    IF current_type = "ANGER" THEN "WALK_AWAY"
    ELSE IF current_type \in EatingIds /\ burp < BurpChance THEN "BURP"
    ELSE NoneId

\* the identifier _end_current_animation force-starts after current_type, or
\* NoneId; burp is the sample of random.randint(1, 100)
chained_after(current_type, burp) ==
    IF current_type = "ANGER" THEN "WALK_AWAY"
    ELSE IF current_type \in EatingIds /\ burp <= BurpChance THEN "BURP"
    ELSE NoneId

\* _end_current_animation starting the chained animation without force
end_current_animation_unforced(fs, s, burp) ==
    LET next == chained_after(s.current_animation, burp) IN
    IF next # NoneId THEN start_animation(fs, s, next, FALSE).pet
    ELSE reset(stop_current_animation(s))

\* config.on_complete() for the active identifier, when its descriptor has a
\* hook: [pet, raised].  The hook stands for any callable: it counts its calls,
\* notes the active identifier it finds, and raises or returns.
call_on_complete(s) ==
    IF s.current_animation \in Catalog /\ s.current_animation \in s.on_complete
    THEN [pet |-> [s EXCEPT !.on_complete_calls = @ + 1,
                             !.on_complete_last = s.current_animation],
          raised |-> s.on_complete_raises]
    ELSE [pet |-> s, raised |-> FALSE]

\* _end_current_animation without the try around the hook: a hook that raises
\* ends the handler
end_current_animation_unguarded(fs, s, burp) ==
    LET called == call_on_complete(s)
        next == chained_after(s.current_animation, burp)
    IN IF called.raised THEN called.pet
       ELSE IF next # NoneId THEN start_animation(fs, called.pet, next, TRUE).pet
       ELSE reset(stop_current_animation(called.pet))

\* _end_current_animation; the except clause swallows what the hook raises
end_current_animation(fs, s, burp) ==
    LET called == call_on_complete(s)
        next == chained_after(s.current_animation, burp)
    IN IF next # NoneId THEN start_animation(fs, called.pet, next, TRUE).pet
       ELSE reset(stop_current_animation(called.pet))

\* the end test with a strict comparison: one loop more
run_is_over_late(loop_count, loops) == loop_count > loops

\* the test of _update_current_animation that ends a run
run_is_over(loop_count, loops) == loop_count >= loops

\* _update_current_animation without the test for the forever sentinel
update_current_animation_counting(fs, s, burp) ==
    IF ~s.is_playing \/ s.cached_frames = <<>> THEN s
    ELSE
      LET config == ANIMATIONS[s.current_animation] IN
      IF s.current_index < Len(s.cached_frames)
      THEN [s EXCEPT !.current_index = @ + 1]
      ELSE LET s1 == [s EXCEPT !.current_index = 0, !.loop_count = @ + 1] IN
           IF run_is_over(s1.loop_count, config.loops)
           THEN end_current_animation(fs, s1, burp)
           ELSE s1

\* _update_current_animation showing one frame past the end of the sequence
update_current_animation_overrun(fs, s, burp) ==
    IF ~s.is_playing \/ s.cached_frames = <<>> THEN s
    ELSE
      LET config == ANIMATIONS[s.current_animation] IN
      IF s.current_index <= Len(s.cached_frames)
      THEN [s EXCEPT !.current_index = @ + 1]
      ELSE IF config.loops = Forever
      THEN [s EXCEPT !.current_index = 0]
      ELSE LET s1 == [s EXCEPT !.current_index = 0, !.loop_count = @ + 1] IN
           IF run_is_over(s1.loop_count, config.loops)
           THEN end_current_animation(fs, s1, burp)
           ELSE s1

\* _update_current_animation, for an active identifier that is a key of
\* ANIMATIONS (the lookup raises KeyError otherwise, see AnimationTick)
update_current_animation(fs, s, burp) ==
    IF ~s.is_playing \/ s.cached_frames = <<>> THEN s
    ELSE
      LET config == ANIMATIONS[s.current_animation] IN
      IF s.current_index < Len(s.cached_frames)
      THEN [s EXCEPT !.current_index = @ + 1]
      ELSE IF config.loops = Forever
      THEN [s EXCEPT !.current_index = 0]
      ELSE LET s1 == [s EXCEPT !.current_index = 0, !.loop_count = @ + 1] IN
           IF run_is_over(s1.loop_count, config.loops)
           THEN end_current_animation(fs, s1, burp)
           ELSE s1

\* _is_sleeping
is_sleeping(s) == s.current_animation \in SleepIds

\* _is_in_special_state
is_in_special_state(s) ==
    s.is_force_sleeping \/ s.free_active_type # NoneId \/ is_sleeping(s)

\* _enter_sleep without the call of _stop_current_animation
enter_sleep_running(s) ==
    IF is_sleeping(s) \/ s.is_force_sleeping THEN s
    ELSE [s EXCEPT !.current_animation = "SLEEP",
                   !.current_priority = SYSTEM]

\* _enter_sleep (the sleep image is a single image, not an animation)
enter_sleep(s) ==
    IF is_sleeping(s) \/ s.is_force_sleeping THEN s
    ELSE [stop_current_animation(s) EXCEPT !.current_animation = "SLEEP",
                                            !.current_priority = SYSTEM]

\* _enter_heixiu_sleep; image says whether heixiu_sleep_image was loaded
enter_heixiu_sleep(s, image) ==
    IF ~s.is_heixiu_mode THEN s
    ELSE LET s1 == [stop_current_animation(s) EXCEPT
                      !.current_animation = "HEIXIU_SLEEP",
                      !.current_priority = SYSTEM]
         IN IF image THEN s1 ELSE enter_sleep(s1)

\* _enter_force_sleep
enter_force_sleep(s) == enter_sleep([s EXCEPT !.is_force_sleeping = TRUE])

\* _exit_force_sleep
exit_force_sleep(s) == reset([s EXCEPT !.is_force_sleeping = FALSE])

\* _wake_up
wake_up(s) ==
    IF ~is_sleeping(s) \/ s.is_force_sleeping THEN s ELSE reset(s)


\* ----------------------------------------------------------- free roaming
\* _reverse_walk_direction leaving the frame cursor where it is
reverse_walk_direction_keeping_cursor(s) ==
    [s EXCEPT !.free_active_direction = -1 * @,
              !.free_active_type = IF @ = "left_walk" THEN "right_walk"
                                   ELSE IF @ = "right_walk" THEN "left_walk"
                                   ELSE @]

\* _reverse_walk_direction
reverse_walk_direction(s) ==
    [s EXCEPT !.free_active_direction = -1 * @,
              !.free_active_type = IF @ = "left_walk" THEN "right_walk"
                                   ELSE IF @ = "right_walk" THEN "left_walk"
                                   ELSE @,
              !.current_index = 0]

\* _move_window_horizontally; the available geometry is 0 .. ScreenRight
move_window_horizontally(s, step) ==
    LET new_x == s.win_x + step IN
    IF new_x < 0
    THEN [reverse_walk_direction(s) EXCEPT !.win_x = 0]
    ELSE IF new_x > ScreenRight - s.win_size
    THEN [reverse_walk_direction(s) EXCEPT !.win_x = ScreenRight - s.win_size]
    ELSE [s EXCEPT !.win_x = new_x]

\* _update_walk_animation
update_walk_animation(fs, s) ==
    LET animation_type == IF s.free_active_type = "left_walk"
                          THEN "LEFT_WALK" ELSE "RIGHT_WALK"
        got == get_animation_frames(fs, s, animation_type)
        s1 == with_caches(s, got.cache)
    IN IF got.frames # <<>> THEN [s1 EXCEPT !.current_index = @ + 1] ELSE s1

\* _end_free_active leaving the frame cursor where the walk took it
end_free_active_keeping_cursor(s) ==
    [s EXCEPT !.free_active_timer = FALSE,
              !.free_active_type = NoneId]

\* _end_free_active
end_free_active(s) ==
    [s EXCEPT !.free_active_timer = FALSE,
              !.free_active_type = NoneId,
              !.current_index = 0]

\* the test of _update_free_active that ends a timed activity at time t
free_active_expired(s, t) ==
    s.free_active_duration > 0
    /\ t - s.free_active_start_time > s.free_active_duration

\* _update_free_active at time t
update_free_active(fs, s, t) ==
    IF s.free_active_type = NoneId THEN s
    ELSE IF free_active_expired(s, t) THEN end_free_active(s)
    ELSE IF s.free_active_type \in {"left_walk", "right_walk"}
    THEN move_window_horizontally(update_walk_animation(fs, s),
                                  s.free_active_direction * WalkStep)
    ELSE with_caches(s, get_animation_frames(fs, s, "SIT").cache)

\* the selection with the sample compared strictly
free_active_choice_strict(rand_val) ==
    IF rand_val < LeftWalkChance THEN "left_walk"
    ELSE IF rand_val < RightWalkChance THEN "right_walk"
    ELSE "sit"

\* the activity start_free_active selects for the sample rand_val
free_active_choice(rand_val) ==
    IF rand_val <= LeftWalkChance THEN "left_walk"
    ELSE IF rand_val <= RightWalkChance THEN "right_walk"
    ELSE "sit"

\* start_free_active at time t; rand_val is the sample of random.randint(1, 100)
start_free_active(s, rand_val, t) ==
    IF s.is_force_sleeping THEN s
    ELSE LET kind == free_active_choice(rand_val) IN
         [reset(stop_current_animation(s)) EXCEPT
            !.free_active_start_time = t,
            !.free_active_type = kind,
            !.free_active_direction = IF kind = "left_walk" THEN -1
                                      ELSE IF kind = "right_walk" THEN 1 ELSE @,
            !.free_active_duration = IF kind = "sit" THEN SitDuration ELSE 0,
            !.free_active_timer = TRUE]

\* --------------------------------------------------------------- triggers
\* the click timestamps _check_anger_condition keeps at time t
RECURSIVE recent_clicks(_, _)
recent_clicks(stamps, t) ==
    IF stamps = <<>> THEN <<>>
    ELSE (IF t - Head(stamps) <= ClickWindow THEN <<Head(stamps)>> ELSE <<>>)
         \o recent_clicks(Tail(stamps), t)

\* the burst test with a strict comparison
is_click_burst_late(stamps) == Len(stamps) > AngerClicks

\* the test of _check_anger_condition on the pruned and extended buffer
is_click_burst(stamps) == Len(stamps) >= AngerClicks

\* _check_anger_condition at time t
check_anger_condition(fs, s, t) ==
    LET stamps == Append(recent_clicks(s.click_timestamps, t), t) IN
    IF is_click_burst(stamps)
    THEN start_animation(fs, [s EXCEPT !.click_timestamps = <<>>], "ANGER", TRUE).pet
    ELSE [s EXCEPT !.click_timestamps = stamps]

\* the force-sleep part of _update_status
update_force_sleep(s, hour) ==
    IF hour = ForceSleepHour /\ ~s.is_force_sleeping THEN enter_force_sleep(s)
    ELSE IF hour # ForceSleepHour /\ s.is_force_sleeping THEN exit_force_sleep(s)
    ELSE s

\* the load part of _update_status restarting a running ANXIETY
update_anxiety_restarting(fs, s, cpu_usage, gpu_usage) ==
    LET is_high_usage == cpu_usage > UsageLimit \/ gpu_usage > UsageLimit
        is_currently_anxious == s.current_animation = "ANXIETY"
    IN IF is_high_usage /\ ~s.is_force_sleeping
       THEN start_animation(fs, s, "ANXIETY", TRUE).pet
       ELSE IF ~is_high_usage /\ is_currently_anxious
       THEN end_current_animation(fs, s, 100)
       ELSE s

\* the load part of _update_status
update_anxiety(fs, s, cpu_usage, gpu_usage) ==
    LET is_high_usage == cpu_usage > UsageLimit \/ gpu_usage > UsageLimit
        is_currently_anxious == s.current_animation = "ANXIETY"
    IN IF is_high_usage /\ ~is_currently_anxious /\ ~s.is_force_sleeping
       THEN start_animation(fs, s, "ANXIETY", TRUE).pet
       ELSE IF ~is_high_usage /\ is_currently_anxious
       THEN end_current_animation(fs, s, 100)
       ELSE s

\* _update_status checking the load before the force-sleep hour
update_status_load_first(fs, s, hour, cpu_usage, gpu_usage) ==
    update_force_sleep(update_anxiety(fs, s, cpu_usage, gpu_usage), hour)

\* _update_status
update_status(fs, s, hour, cpu_usage, gpu_usage) ==
    update_anxiety(fs, update_force_sleep(s, hour), cpu_usage, gpu_usage)

\* _check_idle_time with the idle limit reached at exactly 600 s
check_idle_time_early(s, t, image) ==
    IF t - s.last_interaction_time >= IdleLimit
    THEN IF s.is_heixiu_mode /\ ~is_sleeping(s) THEN enter_heixiu_sleep(s, image)
         ELSE IF ~is_sleeping(s) /\ ~s.is_force_sleeping THEN enter_sleep(s)
         ELSE s
    ELSE s

\* _check_idle_time at time t
check_idle_time(s, t, image) ==
    IF t - s.last_interaction_time > IdleLimit
    THEN IF s.is_heixiu_mode /\ ~is_sleeping(s) THEN enter_heixiu_sleep(s, image)
         ELSE IF ~is_sleeping(s) /\ ~s.is_force_sleeping THEN enter_sleep(s)
         ELSE s
    ELSE s

\* toggle_heixiu_mode
toggle_heixiu_mode(fs, s) ==
    LET s1 == [s EXCEPT !.is_heixiu_mode = ~@] IN
    IF s1.is_heixiu_mode THEN start_animation(fs, s1, "HEIXIU", TRUE).pet
    ELSE [reset(stop_current_animation(s1)) EXCEPT !.win_size = original_size]

\* _restart_animation at time t
restart_animation(s, t) ==
    [reset(stop_current_animation(s)) EXCEPT
        !.is_heixiu_mode = FALSE,
        !.free_active_type = NoneId,
        !.last_interaction_time = t,
        !.win_size = original_size]

\* the animation a counted click requests for the sample rand_val
click_animation(s, rand_val) ==
    IF s.is_heixiu_mode THEN "HEIXIU"
    ELSE IF rand_val < ShakeBelow THEN "SHAKE"
    ELSE IF rand_val < ConfusedBelow THEN "CONFUSED"
    ELSE "BLINK"


\* ----------------------------------------------------------- input events
\* mousePressEvent at time t; left: event.button() == Qt.LeftButton
mouse_press(s, t, left) ==
    IF s.is_force_sleeping THEN s
    ELSE LET s1 == [s EXCEPT !.last_interaction_time = t] IN
         IF left THEN [s1 EXCEPT !.drag_position = TRUE, !.mouse_press_pos = TRUE]
         ELSE s1

\* mouseMoveEvent at time t; left: event.buttons() == Qt.LeftButton, x: the
\* horizontal target of the move
mouse_move(s, t, left, x) ==
    IF s.is_force_sleeping THEN s
    ELSE LET s1 == [s EXCEPT !.last_interaction_time = t] IN
         IF left /\ s1.drag_position THEN [s1 EXCEPT !.win_x = x] ELSE s1

\* whether the release at hand is a counted click
is_click(s, moved) == s.mouse_press_pos /\ ~moved

\* mouseReleaseEvent without the early return of the force sleep
mouse_release_awake(fs, s, t, left, moved, rand_val) ==
    LET s1 == [s EXCEPT !.last_interaction_time = t] IN
    IF ~left THEN s1
    ELSE IF is_sleeping(s1) THEN wake_up(s1)
    ELSE LET s2 == IF ~is_click(s1, moved) THEN s1
                   ELSE IF s1.is_heixiu_mode
                   THEN start_animation(fs, s1, "HEIXIU", FALSE).pet
                   ELSE check_anger_condition(fs,
                          start_animation(fs, s1, click_animation(s1, rand_val),
                                          FALSE).pet, t)
         IN [s2 EXCEPT !.mouse_press_pos = FALSE, !.drag_position = FALSE]

\* mouseReleaseEvent at time t; moved: the pointer is 5 or more away from the
\* press position; rand_val: the sample of random.randint(1, 100)
mouse_release(fs, s, t, left, moved, rand_val) ==
    IF s.is_force_sleeping THEN s
    ELSE LET s1 == [s EXCEPT !.last_interaction_time = t] IN
         IF ~left THEN s1
         ELSE IF is_sleeping(s1) THEN wake_up(s1)
         ELSE LET s2 == IF ~is_click(s1, moved) THEN s1
                        ELSE IF s1.is_heixiu_mode
                        THEN start_animation(fs, s1, "HEIXIU", FALSE).pet
                        ELSE check_anger_condition(fs,
                               start_animation(fs, s1, click_animation(s1, rand_val),
                                               FALSE).pet, t)
              IN [s2 EXCEPT !.mouse_press_pos = FALSE, !.drag_position = FALSE]

\* the menu _create_context_menu builds
menu_kind(s) ==
    IF s.free_active_type # NoneId THEN "roam"
    ELSE IF s.is_heixiu_mode THEN "heixiu"
    ELSE "full"

\* contextMenuEvent at time t, up to the menu's exec_
context_menu(s, t) ==
    IF s.is_force_sleeping THEN s
    ELSE [s EXCEPT !.last_interaction_time = t, !.menu = menu_kind(s)]

\* the entries of the interaction sub-menu
MenuAnimations ==
    {"DRINK_MILK", "EAT_BURGER", "EAT_CHICKEN", "SHAKE", "ROLL", "GUITAR", "PLAY_HEIXIU"}

\* --------------------------------------------------------------- the state
\* what the environment samples
BlinkSamples == {BlinkChance, BlinkChance + 1}
BurpSamples == {BurpChance, BurpChance + 1}
ClickSamples == {ShakeBelow - 1, ShakeBelow, ConfusedBelow}
RoamSamples == {LeftWalkChance, RightWalkChance, RightWalkChance + 1}
Hours == {ForceSleepHour, ForceSleepHour + 1}
Usages == {UsageLimit, UsageLimit + 1}
DragTargets == {0}
\* the instants at which handlers run: the sit duration, then the idle limit,
\* have gone by from one to the next
Instants == {0, SitDuration + 1, SitDuration + IdleLimit + 2}
\* instants for bursts of clicks: 9 s, 10 s and 11 s after the first
ClickInstants == {0, ClickWindow - 1, ClickWindow, ClickWindow + 1}

\* the resource directories with every frame file
AllFiles == [f \in Folders |-> 1 .. MaxFrames]
\* the directories preload_resources reads
Preloaded == {"xiaoheichuchang2", "zhayan", "shengqi", "jiaolv"}
\* an installation with the directories dirs only
Installed(dirs) == [f \in dirs |-> AllFiles[f]]
\* the installations considered (each keeps the number of cache keys small)
FileScenarios ==
    {Installed(Preloaded \cup {"zoukai", "gun1"}),
     Installed(Preloaded \cup {"henai", "dage1"}),
     Installed(Preloaded \cup {"chihanbao"})}
InputScenarios == {Installed(Preloaded \cup {"zoukai", "yao"})}
RoamScenarios == {Installed(Preloaded \cup {"left_walk", "right_walk", "sit"})}
MenuScenarios == {Installed(Preloaded \cup {"left_walk", "henai", "dage1"})}
CacheScenarios == {Installed(Preloaded \cup {"henai"})}
SleepScenarios == {Installed(Preloaded \cup {"heixiu", "yao"})}
HookScenarios == {Installed(Preloaded \cup {"henai", "dage1"})}
\* the identifiers given an on_complete hook (no descriptor of ANIMATIONS has
\* one: AnimationConfig.on_complete defaults to None)
Hooked == {"BLINK", "DRINK_MILK", "ANXIETY"}
\* the folders and sizes the cache is asked for: a preloaded folder, two that
\* are not, a missing one; the window size and half of it
CacheFolders == {"zhayan", "shengqi", "henai", "yao"}
CacheSizes == {original_size \div 2, original_size}

\* the observation of a handler: op names it, req/force/ret are the request it
\* made of _start_animation and the value returned, ended is the identifier whose
\* run it ended through _end_current_animation, ticks counts the invocations of
\* _update_current_animation that advanced the current finite run
Ev(op, req, force, ret, ended, ticks) ==
    [op |-> op, req |-> req, force |-> force, ret |-> ret, ended |-> ended,
     ticks |-> ticks]

\* DesktopPet.__init__ over the directories fs at time t
InitialPet(fs, t) ==
    LET preloaded == preload_resources(fs,
                        [frame_cache |-> << >>, base_pixmap_cache |-> {}],
                        <<"MAIN", "BLINK", "ANGER", "ANXIETY">>)
        blank ==
          [current_animation |-> NoneId, current_priority |-> IDLE,
           is_playing |-> FALSE, current_index |-> 0, loop_count |-> 0,
           cached_frames |-> <<>>, anim_original_size |-> NoSize,
           win_size |-> original_size, win_x |-> 0,
           animation_timer |-> FALSE, free_active_timer |-> FALSE,
           is_heixiu_mode |-> FALSE, is_force_sleeping |-> FALSE,
           last_interaction_time |-> t, click_timestamps |-> <<>>,
           free_active_type |-> NoneId, free_active_direction |-> 1,
           free_active_start_time |-> 0, free_active_duration |-> 0,
           drag_position |-> FALSE, mouse_press_pos |-> FALSE,
           on_complete |-> {}, on_complete_raises |-> FALSE,
           on_complete_calls |-> 0, on_complete_last |-> NoneId,
           menu |-> "closed", frame_cache |-> preloaded.frame_cache,
           base_pixmap_cache |-> preloaded.base_pixmap_cache]
    IN with_caches(blank, get_animation_frames(fs, blank, "MAIN").cache)

InitOver(scenarios) ==
    /\ files \in scenarios
    /\ now = 0
    /\ pet = InitialPet(files, now)
    /\ ev = Ev("init", NoneId, FALSE, FALSE, NoneId, 0)

Init == InitOver(FileScenarios)

\* the state after construction with a catalog whose descriptors of Hooked
\* have a hook, which raises or not
HookInit ==
    /\ files \in HookScenarios
    /\ now = 0
    /\ \E raises \in BOOLEAN :
         pet = [InitialPet(files, now) EXCEPT !.on_complete = Hooked,
                                              !.on_complete_raises = raises]
    /\ ev = Ev("init", NoneId, FALSE, FALSE, NoneId, 0)


\* ------------------------------------------------------------ the actions
\* whether the next tick of the animation timer ends the run naturally
tick_ends_run(s) ==
    /\ s.is_playing /\ s.cached_frames # <<>>
    /\ s.current_animation \in Catalog
    /\ s.current_index >= Len(s.cached_frames)
    /\ ANIMATIONS[s.current_animation].loops # Forever
    /\ run_is_over(s.loop_count + 1, ANIMATIONS[s.current_animation].loops)

\* whether a tick of the animation timer advances a finite run of s
advances(s) ==
    /\ s.is_playing /\ s.cached_frames # <<>>
    /\ s.current_animation \in Catalog
    /\ ANIMATIONS[s.current_animation].loops # Forever

\* ev after a handler that took pet to pet'
Observe(op, req, force, ret, ended) ==
    LET base == IF ev.ended # NoneId THEN 0 ELSE ev.ticks
        count == IF op = "animation_tick" /\ advances(pet) THEN base + 1 ELSE base
    IN ev' = Ev(op, req, force, ret, ended,
                IF ended # NoneId THEN count
                ELSE IF ~pet'.is_playing \/ (ret /\ req # NoneId) THEN 0
                ELSE count)

\* the clock moves on between two handlers
TimePasses(instants) ==
    /\ \E t \in instants : t > now /\ now' = t
    /\ UNCHANGED <<pet, files>>
    /\ Observe("time", NoneId, FALSE, FALSE, NoneId)

AdvanceTime == TimePasses(Instants)
AdvanceClickTime == TimePasses(ClickInstants)
AdvanceSitTime == TimePasses({0, SitDuration + 1})
AdvanceIdleTime == TimePasses({0, IdleLimit + 1})
AdvanceSleepTime == TimePasses({0, IdleLimit, IdleLimit + 1})

\* main_timer: _on_main_timer
MainTimer ==
    \E r \in BlinkSamples :
      LET asks == ~(pet.is_playing \/ is_in_special_state(pet)) /\ r <= BlinkChance
          res == start_animation(files, pet, "BLINK", FALSE)
      IN /\ pet' = IF asks THEN res.pet ELSE pet
         /\ IF asks THEN Observe("request", "BLINK", FALSE, res.ret, NoneId)
                  ELSE Observe("main_timer", NoneId, FALSE, FALSE, NoneId)
         /\ UNCHANGED <<files, now>>

\* animation_timer: _update_current_animation
AnimationTick ==
    /\ pet.animation_timer
    /\ \E burp \in BurpSamples :
         IF pet.is_playing /\ pet.cached_frames # <<>>
            /\ pet.current_animation \notin Catalog
         THEN /\ pet' = pet
              /\ Observe("KeyError", NoneId, FALSE, FALSE, NoneId)
         ELSE /\ pet' = update_current_animation(files, pet, burp)
              /\ Observe("animation_tick", NoneId, FALSE, FALSE,
                          IF tick_ends_run(pet) THEN pet.current_animation ELSE NoneId)
    /\ UNCHANGED <<files, now>>

\* free_active_timer: _update_free_active
FreeActiveTick ==
    /\ pet.free_active_timer
    /\ pet' = update_free_active(files, pet, now)
    /\ Observe("free_active_tick", NoneId, FALSE, FALSE, NoneId)
    /\ UNCHANGED <<files, now>>

\* what a status tick at the force-sleep hour is observed as, the usage being
\* at most 90 % or above
SleepHourOps == {"status_sleep_hour", "status_sleep_hour_high"}

\* status_timer: _update_status
StatusTick ==
    \E hour \in Hours, cpu_usage \in Usages, gpu_usage \in Usages :
      LET slept == update_force_sleep(pet, hour)
          high == cpu_usage > UsageLimit \/ gpu_usage > UsageLimit
          anxious == slept.current_animation = "ANXIETY"
          asks == high /\ ~anxious /\ ~slept.is_force_sleeping
      IN /\ pet' = update_status(files, pet, hour, cpu_usage, gpu_usage)
         /\ Observe(IF hour # ForceSleepHour THEN "status"
                    ELSE IF high THEN "status_sleep_hour_high"
                    ELSE "status_sleep_hour",
                    IF asks THEN "ANXIETY" ELSE NoneId, asks,
                    asks /\ start_animation(files, slept, "ANXIETY", TRUE).ret,
                    IF ~high /\ anxious THEN "ANXIETY" ELSE NoneId)
         /\ UNCHANGED <<files, now>>

\* idle_timer: _check_idle_time
IdleTick ==
    \E image \in BOOLEAN :
      /\ pet' = check_idle_time(pet, now, image)
      /\ Observe("idle_tick", NoneId, FALSE, FALSE, NoneId)
      /\ UNCHANGED <<files, now>>

\* a popup menu grabs the pointer: the widget gets no mouse event meanwhile
MousePress ==
    /\ pet.menu = "closed"
    /\ \E left \in BOOLEAN :
         /\ pet' = mouse_press(pet, now, left)
         /\ Observe("pointer_down", NoneId, FALSE, FALSE, NoneId)
    /\ UNCHANGED <<files, now>>

MouseMove ==
    /\ pet.menu = "closed"
    /\ \E left \in BOOLEAN, x \in DragTargets :
         /\ pet' = mouse_move(pet, now, left, x)
         /\ Observe("pointer_move", NoneId, FALSE, FALSE, NoneId)
    /\ UNCHANGED <<files, now>>

MouseRelease ==
    /\ pet.menu = "closed"
    /\ \E left \in BOOLEAN, moved \in BOOLEAN, rand_val \in ClickSamples :
         LET clicked == /\ ~pet.is_force_sleeping /\ left /\ ~is_sleeping(pet)
                        /\ is_click(pet, moved)
             counted == clicked /\ ~pet.is_heixiu_mode
             wanted == click_animation(pet, rand_val)
             burst == is_click_burst(Append(recent_clicks(pet.click_timestamps, now), now))
         IN /\ pet' = mouse_release(files, pet, now, left, moved, rand_val)
            /\ IF clicked /\ pet.is_heixiu_mode
               THEN Observe("heixiu_click", "HEIXIU", FALSE,
                            start_animation(files, pet, "HEIXIU", FALSE).ret, NoneId)
               ELSE IF counted /\ burst
               THEN Observe("click_burst", "ANGER", TRUE,
                            pet'.current_animation = "ANGER" /\ pet'.is_playing, NoneId)
               ELSE IF counted
               THEN Observe("click", wanted, FALSE,
                            start_animation(files, pet, wanted, FALSE).ret, NoneId)
               ELSE Observe("pointer_up", NoneId, FALSE, FALSE, NoneId)
    /\ UNCHANGED <<files, now>>

ContextMenu ==
    /\ pet.menu = "closed"
    /\ pet' = context_menu(pet, now)
    /\ Observe("context_menu", NoneId, FALSE, FALSE, NoneId)
    /\ UNCHANGED <<files, now>>

\* the user leaves the menu without choosing (or chooses a speed entry)
MenuDismiss ==
    /\ pet.menu # "closed"
    /\ pet' = [pet EXCEPT !.menu = "closed"]
    /\ Observe("menu_dismiss", NoneId, FALSE, FALSE, NoneId)
    /\ UNCHANGED <<files, now>>

\* an entry of the interaction sub-menu: _start_animation(animation)
MenuInteraction ==
    /\ pet.menu = "full"
    /\ \E a \in MenuAnimations :
         LET res == start_animation(files, [pet EXCEPT !.menu = "closed"], a, FALSE) IN
         /\ pet' = res.pet
         /\ Observe("request", a, FALSE, res.ret, NoneId)
    /\ UNCHANGED <<files, now>>

MenuRestart ==
    /\ pet.menu \in {"full", "heixiu"}
    /\ pet' = restart_animation([pet EXCEPT !.menu = "closed"], now)
    /\ Observe("restart", NoneId, FALSE, FALSE, NoneId)
    /\ UNCHANGED <<files, now>>

MenuFreeActive ==
    /\ pet.menu \in {"full", "heixiu"}
    /\ \E rand_val \in RoamSamples :
         pet' = start_free_active([pet EXCEPT !.menu = "closed"], rand_val, now)
    /\ Observe("start_free_active", NoneId, FALSE, FALSE, NoneId)
    /\ UNCHANGED <<files, now>>

MenuToggleHeixiu ==
    /\ pet.menu \in {"full", "heixiu"}
    /\ pet' = toggle_heixiu_mode(files, [pet EXCEPT !.menu = "closed"])
    /\ Observe("toggle_heixiu", IF pet.is_heixiu_mode THEN NoneId ELSE "HEIXIU",
                ~pet.is_heixiu_mode, pet'.current_animation = "HEIXIU", NoneId)
    /\ UNCHANGED <<files, now>>

MenuEndFreeActive ==
    /\ pet.menu = "roam"
    /\ pet' = end_free_active([pet EXCEPT !.menu = "closed"])
    /\ Observe("end_free_active", NoneId, FALSE, FALSE, NoneId)
    /\ UNCHANGED <<files, now>>

\* ResourceManager.load_frames called with any folder, count and size; the
\* observation says whether the key was in frame_cache
GetFrames ==
    /\ \E folder_name \in CacheFolders, total_frames \in 1 .. MaxFrames,
          size \in CacheSizes :
         LET got == load_frames(files, resource_manager(pet), folder_name,
                                total_frames, size) IN
         /\ pet' = with_caches(pet, got.cache)
         /\ Observe("get_frames", NoneId, FALSE,
                     <<folder_name, size>> \in DOMAIN pet.frame_cache, NoneId)
    /\ UNCHANGED <<files, now>>

\* the scheduler's entry point called with any identifier of the catalog
Request ==
    /\ pet.menu = "closed"
    /\ \E a \in Catalog, force \in BOOLEAN :
         LET res == start_animation(files, pet, a, force) IN
         /\ pet' = res.pet
         /\ Observe("request", a, force, res.ret, NoneId)
    /\ UNCHANGED <<files, now>>

Timers == MainTimer \/ AnimationTick \/ StatusTick \/ IdleTick
Inputs == MousePress \/ MouseMove \/ MouseRelease \/ ContextMenu

\* ------------------------------------------------------ the specifications
\* the scheduler driven through its entry point and by the timers
Next == AdvanceTime \/ Timers \/ Request
Spec == Init /\ [][Next]_vars

\* the pet left alone: the timers only, no user input
TimerNext == AdvanceTime \/ Timers
TimerSpec == Init /\ [][TimerNext]_vars

\* the pet under the pointer: the input events, with the status timer running
InputNext == AdvanceTime \/ StatusTick \/ Inputs \/ MenuDismiss
InputSpec == InitOver(InputScenarios) /\ [][InputNext]_vars

\* bursts of clicks: presses and releases within seconds of each other
ClickNext == AdvanceClickTime \/ MousePress \/ MouseRelease
ClickSpec == InitOver(InputScenarios) /\ [][ClickNext]_vars


\* the pet roaming: the free-roam entries of the menu, with the timers running
RoamMenu ==
    ContextMenu \/ MenuDismiss \/ MenuFreeActive \/ MenuEndFreeActive \/ MenuRestart
RoamNext ==
    AdvanceSitTime \/ RoamMenu \/ FreeActiveTick \/ AnimationTick \/ StatusTick
    \/ MainTimer
RoamSpec == InitOver(RoamScenarios) /\ [][RoamNext]_vars

\* the pet driven from its context menu: interactions and free roaming
MenuNext ==
    RoamMenu \/ MenuInteraction \/ FreeActiveTick \/ AnimationTick \/ StatusTick
MenuSpec == InitOver(MenuScenarios) /\ [][MenuNext]_vars

\* the ResourceManager asked for frames, next to the idle blink
CacheNext == GetFrames \/ MainTimer \/ AnimationTick
CacheSpec == InitOver(CacheScenarios) /\ [][CacheNext]_vars

\* the pet falling asleep and woken up: the idle check and the heixiu mode,
\* with the timers running and the user at the menu or releasing the button
SleepNext ==
    AdvanceSleepTime \/ Timers \/ ContextMenu \/ MenuDismiss \/ MenuInteraction
    \/ MenuToggleHeixiu \/ MenuRestart \/ MouseRelease
SleepSpec == InitOver(SleepScenarios) /\ [][SleepNext]_vars

\* the instant from which the pet is left to its animation timer
QuietAt == SitDuration + IdleLimit + 2
\* requests and the main timer up to QuietAt, the animation timer alone
\* afterwards; an armed QTimer keeps firing, hence the fairness of its tick
QuietNext ==
    \/ now < QuietAt /\ AdvanceTime
    \/ now < QuietAt /\ MainTimer
    \/ now < QuietAt /\ Request
    \/ AnimationTick
QuietSpec == Init /\ [][QuietNext]_vars /\ WF_vars(AnimationTick)

\* the scheduler with hooked descriptors, until the hooks were called
\* MaxHookCalls times
HookNext ==
    /\ pet.on_complete_calls < MaxHookCalls
    /\ \/ AdvanceIdleTime \/ Timers
       \/ ContextMenu \/ MenuDismiss \/ MenuInteraction \/ MenuFreeActive
       \/ MenuRestart
HookSpec == HookInit /\ [][HookNext]_vars

\* ------------------------------------------------------------- the claims
\* AnimationRunState, and the armed/unarmed status of the two playback timers
RunState(s) ==
    <<s.current_animation, s.current_priority, s.is_playing, s.current_index,
      s.loop_count, s.cached_frames, s.anim_original_size>>
PlaybackTimers(s) == <<s.animation_timer, s.free_active_timer>>
\* the state of the free-roam controller
RoamState(s) ==
    <<s.free_active_type, s.free_active_direction, s.win_x, s.free_active_timer>>
\* the handler that just ran asked the scheduler for ev'.req
Requested == ev'.op = "request"

\* C1: while an animation is playing, a request without force for an animation
\* of lower or equal priority returns false and leaves the run state and the
\* armed/unarmed status of both timers as they were.
C1_LowerOrEqualRejected ==
    [][(Requested /\ ~ev'.force /\ pet.is_playing
        /\ ANIMATIONS[ev'.req].priority <= pet.current_priority)
       => (/\ ~ev'.ret
           /\ RunState(pet') = RunState(pet)
           /\ PlaybackTimers(pet') = PlaybackTimers(pet))]_vars

\* a request of equal priority has just been rejected under a running timer
C1_Witness ==
    /\ ev.op = "request" /\ ~ev.force /\ ~ev.ret
    /\ pet.is_playing /\ pet.animation_timer
    /\ ANIMATIONS[ev.req].priority = pet.current_priority
    /\ pet.current_index > 0

\* C2: while a non-interruptible animation is playing, every request without
\* force returns false, whatever the priority of the requested animation.
C2_NonInterruptibleRejects ==
    [][(Requested /\ ~ev'.force /\ pet.is_playing
        /\ pet.current_animation \in Catalog
        /\ ~ANIMATIONS[pet.current_animation].interruptible)
       => ~ev'.ret]_vars

\* the frames _start_animation gets for animation_type in state s are none
no_frames(fs, s, animation_type) ==
    get_animation_frames(fs, stop_current_animation(s), animation_type).frames = <<>>

\* C3: a request that passes the priority check and gets no frames returns
\* false and leaves the previous state: the run state is as before, and an
\* animation that was playing under an armed timer still is.
C3_NoFramesLeavesState ==
    [][(Requested /\ may_start(pet, ev'.req, ev'.force)
        /\ no_frames(files, pet, ev'.req))
       => (/\ ~ev'.ret
           /\ RunState(pet') = RunState(pet)
           /\ (pet.is_playing /\ pet.animation_timer
               => pet'.is_playing /\ pet'.animation_timer))]_vars

\* the run state at the start of a run of animation_type
FreshRun(s, animation_type) ==
    /\ s.current_animation = animation_type
    /\ s.is_playing
    /\ s.current_index = 0
    /\ s.loop_count = 0

\* the tick that just ran ended a run of animation_type naturally
TickEnded(animation_type) ==
    ev'.op = "animation_tick" /\ ev'.ended = animation_type

\* C4 as stated: whenever a tick ends ANGER naturally, WALK_AWAY is the fresh
\* active animation right after it.
C4_AngerAlwaysWalksAway ==
    [][TickEnded("ANGER") => FreshRun(pet', "WALK_AWAY")]_vars

\* C4 amended: the same, provided the frames of WALK_AWAY are available.
C4_AngerWalksAwayIfFrames ==
    [][(TickEnded("ANGER") /\ ~no_frames(files, pet, "WALK_AWAY"))
       => FreshRun(pet', "WALK_AWAY")]_vars

C4_Witness ==
    /\ ev.op = "animation_tick" /\ ev.ended = "ANGER"
    /\ FreshRun(pet, "WALK_AWAY") /\ pet.animation_timer

\* C5 as stated: a finite run of N loops over a descriptor of F frames ends
\* naturally on the tick that makes N * F advances.
C5_TicksAreLoopsTimesFrames ==
    [][\A a \in Catalog :
         TickEnded(a) => ev'.ticks = ANIMATIONS[a].loops * FrameCount(a)]_vars

\* C5 amended: with L the number of frames loaded for the run, the run ends
\* naturally on tick number N * (L + 1): L ticks show a frame and one more
\* wraps the cursor, in each loop.
C5_TicksAreLoopsTimesFramesPlusOne ==
    [][\A a \in Catalog :
         TickEnded(a)
         => ev'.ticks = ANIMATIONS[a].loops * (Len(pet.cached_frames) + 1)]_vars

\* a run of three loops over a full frame sequence has just ended
C5_Witness ==
    /\ ev.op = "animation_tick" /\ ev.ended = "DRINK_MILK"
    /\ ev.ticks = ANIMATIONS["DRINK_MILK"].loops * (FrameCount("DRINK_MILK") + 1)

\* a forever-looping animation is playing in state s
PlaysForever(s) ==
    /\ s.is_playing
    /\ s.current_animation \in Catalog
    /\ ANIMATIONS[s.current_animation].loops = Forever

\* the step ends the run of s: another identifier is active, or none is playing
RunEnds == pet'.current_animation # pet.current_animation \/ ~pet'.is_playing

C8_SleepHourEntersSleep ==
    [][(ev'.op \in SleepHourOps /\ ~pet.is_force_sleeping)
       => (/\ pet'.is_force_sleeping
           /\ pet'.current_animation = "SLEEP"
           /\ ~pet'.animation_timer /\ ~pet'.free_active_timer)]_vars

\* C9: while the pet is force-sleeping, no step changes the run state or the
\* free-roam state.
C9_ForceSleepFreezes ==
    [][(pet.is_force_sleeping /\ pet'.is_force_sleeping)
       => (RunState(pet') = RunState(pet) /\ RoamState(pet') = RoamState(pet))]_vars


\* the release that just ran is a click the anger counter counts
CountedClick == ev'.op \in {"click", "click_burst"}

\* C7: in an installation that holds the frames of ANGER, the 15th counted
\* click of a burst whose first click is at most 9 s old starts ANGER and
\* empties the buffer; a counted click that finds fewer than 14 timestamps
\* never starts ANGER and is recorded; and the first counted click after the
\* buffer is emptied leaves exactly its own timestamp in it.
C7_ClickBurst ==
    [][CountedClick
       => /\ (/\ Len(pet.click_timestamps) = AngerClicks - 1
              /\ now - pet.click_timestamps[1] <= ClickWindow - 1)
             => (pet'.click_timestamps = <<>> /\ FreshRun(pet', "ANGER"))
          /\ Len(pet.click_timestamps) < AngerClicks - 1
             => /\ pet'.click_timestamps # <<>>
                /\ pet'.click_timestamps[Len(pet'.click_timestamps)] = now
                /\ pet'.current_animation = "ANGER" => pet.current_animation = "ANGER"
          /\ pet.click_timestamps = <<>> => pet'.click_timestamps = <<now>>]_vars

\* the 15th click of a burst, 9 s after the clock started, has started ANGER
C7_Witness ==
    /\ ev.op = "click_burst" /\ now = ClickWindow - 1
    /\ pet.click_timestamps = <<>> /\ FreshRun(pet, "ANGER")

\* the handler that just ran is one of the four input events
InputOps ==
    {"pointer_down", "pointer_move", "pointer_up", "click", "click_burst",
     "heixiu_click", "context_menu"}

\* the drag state
DragState(s) == <<s.drag_position, s.mouse_press_pos, s.win_x>>

\* C10: an input event delivered while the pet is force-sleeping changes
\* neither last_interaction_time nor the run state, the click buffer, the drag
\* state or the free-roam state; delivered otherwise, it leaves
\* last_interaction_time at the current time.
C10_InputsUnderForceSleep ==
    [][ev'.op \in InputOps
       => IF pet.is_force_sleeping
          THEN /\ pet'.last_interaction_time = pet.last_interaction_time
               /\ RunState(pet') = RunState(pet)
               /\ pet'.click_timestamps = pet.click_timestamps
               /\ DragState(pet') = DragState(pet)
               /\ RoamState(pet') = RoamState(pet)
          ELSE pet'.last_interaction_time = now]_vars

\* a button released during the force sleep: the press before it is still
\* pending and the interaction time is older than the clock
C10_Witness ==
    /\ ev.op = "pointer_up" /\ pet.is_force_sleeping
    /\ pet.mouse_press_pos /\ pet.last_interaction_time < now


\* the handlers of the trigger layer, by the name of their observation
TriggerOps == {"request", "idle_tick", "status", "click_burst"} \cup SleepHourOps

\* C11: a step of a trigger that replaces a playing animation by another
\* active identifier is a request with force, or the new identifier has a
\* strictly higher priority than the one replaced.
C11_TriggersGoThroughScheduler ==
    [][(/\ ev'.op \in TriggerOps
        /\ pet.is_playing
        /\ pet'.current_animation # pet.current_animation
        /\ pet'.current_animation # NoneId)
       => \/ ev'.req # NoneId /\ ev'.force
          \/ pet'.current_priority > pet.current_priority]_vars

\* the run state reset() leaves
IdleRun(s) ==
    /\ s.current_animation = NoneId /\ ~s.is_playing
    /\ s.current_priority = IDLE
    /\ s.current_index = 0 /\ s.loop_count = 0 /\ s.cached_frames = <<>>

\* the tick that just ran started BURP
BurpStarted == pet'.current_animation = "BURP" /\ pet.current_animation # "BURP"

\* the next tick of the animation timer ends a run of an eating animation
EatingEnds(s) ==
    tick_ends_run(s) /\ s.animation_timer /\ s.current_animation \in EatingIds

\* C13 as stated: the tick that ends an eating animation naturally leaves BURP
\* playing afresh for a sample r <= 30 and the run state idle for r > 30; no
\* other natural end starts BURP, and the natural end of BURP leaves the run
\* state idle.
C13_EatingEndsInBurpOrIdle ==
    [][/\ EatingEnds(pet)
          => \A r \in BurpSamples :
               LET after == update_current_animation(files, pet, r) IN
               IF r <= BurpChance THEN FreshRun(after, "BURP") ELSE IdleRun(after)
       /\ (ev'.op = "animation_tick" /\ BurpStarted)
          => (\E a \in EatingIds : TickEnded(a))
       /\ TickEnded("BURP") => IdleRun(pet')]_vars

\* C13 amended: the same, the eating animation staying the active identifier
\* when r <= 30 and BURP has no frames.
C13_EatingEndsInBurpIfFrames ==
    [][/\ EatingEnds(pet)
          => \A r \in BurpSamples :
               LET after == update_current_animation(files, pet, r) IN
               IF r > BurpChance THEN IdleRun(after)
               ELSE IF no_frames(files, pet, "BURP")
               THEN after.current_animation = pet.current_animation
               ELSE FreshRun(after, "BURP")
       /\ (ev'.op = "animation_tick" /\ BurpStarted)
          => (\E a \in EatingIds : TickEnded(a))
       /\ TickEnded("BURP") => IdleRun(pet')]_vars

\* DRINK_MILK has just ended naturally into BURP
C13_Witness ==
    /\ ev.op = "animation_tick" /\ ev.ended = "DRINK_MILK"
    /\ FreshRun(pet, "BURP") /\ pet.animation_timer


\* C20: the load monitor reads its conditions after the clock gate of the same
\* status tick.  With CPU or GPU usage above 90 % it force-starts ANXIETY when
\* ANXIETY is not the active animation and the pet is not force-sleeping, and
\* changes nothing otherwise; with both usages at or below 90 % while ANXIETY
\* is active it leaves the run state at the idle defaults, no timer armed.
C20_LoadMonitor ==
    \A hour \in Hours, cpu_usage \in Usages, gpu_usage \in Usages :
      LET gate == update_force_sleep(pet, hour)
          after == update_status(files, pet, hour, cpu_usage, gpu_usage)
          high == cpu_usage > UsageLimit \/ gpu_usage > UsageLimit
          anxious == gate.current_animation = "ANXIETY"
      IN /\ (high /\ ~anxious /\ ~gate.is_force_sleeping)
            => (FreshRun(after, "ANXIETY") /\ after.animation_timer)
         /\ (high /\ (anxious \/ gate.is_force_sleeping)) => after = gate
         /\ (~high /\ anxious)
            => (IdleRun(after) /\ ~after.animation_timer /\ ~after.free_active_timer)

\* a status tick under sustained high usage has left a running ANXIETY alone
C20_Witness ==
    /\ ev.op = "status" /\ ev.req = NoneId /\ ev.ended = NoneId
    /\ pet.current_animation = "ANXIETY" /\ pet.is_playing
    /\ pet.current_index > 0 /\ pet.animation_timer


\* C12: the animation timer and the free-roam timer are never both armed, and
\* after every accepted request, a chained one included, the animation timer
\* is the one armed.
C12_OneTimerArmed ==
    [][/\ ~(pet'.animation_timer /\ pet'.free_active_timer)
       /\ (ev'.req # NoneId /\ ev'.ret)
          => (pet'.animation_timer /\ ~pet'.free_active_timer)
       /\ (\E a \in Catalog : TickEnded(a) /\ pet'.current_animation # a
                               /\ pet'.is_playing)
          => (pet'.animation_timer /\ ~pet'.free_active_timer)]_vars

\* a request accepted during free roaming has stopped the free-roam timer
C12_Witness ==
    /\ ev.req # NoneId /\ ev.ret
    /\ pet.free_active_type # NoneId
    /\ pet.animation_timer /\ ~pet.free_active_timer


\* the pet is walking: the free-roam timer drives a walk
Walking(s) ==
    s.free_active_timer /\ s.free_active_type \in {"left_walk", "right_walk"}

\* the length of the frame sequence being shown in state s: the walk's frames
\* while walking, the frames of the run otherwise
shown_frames(fs, s) ==
    IF Walking(s)
    THEN Len(get_animation_frames(fs, s,
               IF s.free_active_type = "left_walk" THEN "LEFT_WALK"
               ELSE "RIGHT_WALK").frames)
    ELSE Len(s.cached_frames)

WalkTick == ev'.op = "free_active_tick" /\ Walking(pet)

\* C17: a free-roam tick whose step would take the window past the right edge
\* leaves the window at the edge, the pet walking left with direction -1 and
\* the frame cursor at 0; symmetrically at the left edge.
C17_WalkBounce ==
    [][WalkTick
       => LET new_x == pet.win_x + pet.free_active_direction * WalkStep
              edge == ScreenRight - pet.win_size
          IN /\ new_x > edge
                => /\ pet.free_active_type = "right_walk"
                   /\ pet'.win_x = edge
                   /\ pet'.free_active_type = "left_walk"
                   /\ pet'.free_active_direction = -1
                   /\ pet'.current_index = 0
             /\ new_x < 0
                => /\ pet.free_active_type = "left_walk"
                   /\ pet'.win_x = 0
                   /\ pet'.free_active_type = "right_walk"
                   /\ pet'.free_active_direction = 1
                   /\ pet'.current_index = 0]_vars

\* the pet has just bounced off the right edge
C17_Witness ==
    /\ ev.op = "free_active_tick" /\ Walking(pet)
    /\ pet.free_active_type = "left_walk" /\ pet.free_active_direction = -1
    /\ pet.win_x = ScreenRight - pet.win_size /\ pet.current_index = 0

\* C18: in every state where free_active_type is a walk, the free-roam timer
\* is armed.
C18_WalkKeepsItsTimer ==
    pet.free_active_type \in {"left_walk", "right_walk"} => pet.free_active_timer

\* C19: activation selects left walk for a sample r <= 48, right walk for
\* 48 < r <= 96 and sit otherwise, from the current time on, and changes
\* nothing while the pet is force-sleeping; a free-roam tick ends a sit exactly
\* when more than 300 s have gone by since activation, and never ends a walk.
C19_FreeRoamActivation ==
    [][/\ \A r \in RoamSamples :
            LET after == start_free_active(pet, r, now) IN
            IF pet.is_force_sleeping THEN after = pet
            ELSE /\ after.free_active_type =
                      IF r <= LeftWalkChance THEN "left_walk"
                      ELSE IF r <= RightWalkChance THEN "right_walk" ELSE "sit"
                 /\ after.free_active_start_time = now
                 /\ after.free_active_timer
       /\ (ev'.op = "free_active_tick" /\ pet.free_active_type = "sit")
          => (pet'.free_active_type = NoneId
              <=> now - pet.free_active_start_time > SitDuration)
       /\ WalkTick => Walking(pet')]_vars

\* a free-roam tick has just ended a sit whose time was up
C19_Witness ==
    /\ ev.op = "free_active_tick" /\ pet.free_active_type = NoneId
    /\ pet.free_active_duration = SitDuration
    /\ now - pet.free_active_start_time > SitDuration
    /\ ~pet.free_active_timer


\* C14: no step changes an entry of the frame cache, and in every state two
\* calls of load_frames for the same folder and size, one after the other,
\* return equal frame sequences, the second decoding no file.
C14_CacheIdempotence ==
    [][/\ \A k \in DOMAIN pet.frame_cache :
            k \in DOMAIN pet'.frame_cache /\ pet'.frame_cache[k] = pet.frame_cache[k]
       /\ \A folder_name \in CacheFolders, size \in CacheSizes,
             n1 \in 1 .. MaxFrames, n2 \in 1 .. MaxFrames :
            LET first == load_frames(files, resource_manager(pet'), folder_name,
                                     n1, size)
                second == load_frames(files, first.cache, folder_name, n2, size)
            IN second.frames = first.frames /\ second.decoded = 0]_vars

\* a call has hit the frame cache, an entry of which the preload cut short
C14_Witness ==
    /\ ev.op = "get_frames" /\ ev.ret
    /\ <<"henai", original_size>> \in DOMAIN pet.frame_cache
    /\ Len(pet.frame_cache[<<"zhayan", original_size>>]) < FrameCount("BLINK")


\* the handler that just ran called an on_complete hook
HookCalled == pet'.on_complete_calls # pet.on_complete_calls

\* C16: with descriptors that have an on_complete hook, the tick that ends
\* such a run naturally calls the hook once, while the ended identifier is
\* still the active one (before any chained start); a handler calls a hook
\* only when it ends a run through _end_current_animation, never when it
\* preempts a run by a request or stops it for sleep, free roaming or restart;
\* and whether the hook raises or not, the end leaves the chained animation
\* playing afresh or the run state idle.
C16_HookOncePerNaturalEnd ==
    [][/\ \A a \in Catalog :
            (TickEnded(a) /\ a \in pet.on_complete)
            => /\ pet'.on_complete_calls = pet.on_complete_calls + 1
               /\ pet'.on_complete_last = a
       /\ HookCalled
          => (ev'.ended # NoneId
              /\ pet'.on_complete_calls = pet.on_complete_calls + 1)
       /\ ev'.op \in {"request", "idle_tick", "start_free_active", "restart"}
          => ~HookCalled
       /\ ev'.ended # NoneId
          => \/ FreshRun(pet', "BURP") \/ FreshRun(pet', "WALK_AWAY")
             \/ IdleRun(pet')]_vars

\* the natural end of DRINK_MILK has called a hook that raises, and BURP plays
C16_Witness ==
    /\ ev.op = "animation_tick" /\ ev.ended = "DRINK_MILK"
    /\ pet.on_complete_raises /\ pet.on_complete_last = "DRINK_MILK"
    /\ pet.on_complete_calls > 0
    /\ FreshRun(pet, "BURP")


\* the idle check at hand finds the idle limit exceeded and the pet awake
IdleLimitExceeded ==
    /\ now - pet.last_interaction_time > IdleLimit
    /\ ~is_sleeping(pet) /\ ~pet.is_force_sleeping

\* C21: an idle check more than 600 s after the last interaction, with the pet
\* neither sleeping nor force-sleeping, leaves the active identifier SLEEP
\* (HEIXIU_SLEEP in heixiu mode) with priority SYSTEM and both playback timers
\* stopped; an idle check at most 600 s after the last interaction, or with
\* the pet already sleeping, changes nothing.
C21_IdleCheckEntersSleep ==
    [][ev'.op = "idle_tick"
       => IF IdleLimitExceeded
          THEN /\ pet'.current_animation =
                     (IF pet.is_heixiu_mode THEN "HEIXIU_SLEEP" ELSE "SLEEP")
               /\ pet'.current_priority = SYSTEM
               /\ ~pet'.animation_timer /\ ~pet'.free_active_timer
          ELSE (now - pet.last_interaction_time <= IdleLimit \/ is_sleeping(pet))
               => pet' = pet]_vars

\* the idle check has put a pet that was playing HEIXIU into HEIXIU_SLEEP
C21_Witness ==
    /\ ev.op = "idle_tick"
    /\ pet.current_animation = "HEIXIU_SLEEP" /\ pet.current_priority = SYSTEM
    /\ pet.is_heixiu_mode /\ pet.is_playing
    /\ ~pet.animation_timer /\ ~pet.is_force_sleeping


\* C22: a forced request for an identifier of the catalog whose frames are
\* available returns true and leaves that identifier playing afresh with its
\* own priority and the animation timer armed, whatever was playing; a forced
\* request returns false only when the frames are not available.
C22_ForcedRequestAccepted ==
    [][(Requested /\ ev'.force)
       => IF no_frames(files, pet, ev'.req) THEN ~ev'.ret
          ELSE /\ ev'.ret
               /\ FreshRun(pet', ev'.req)
               /\ pet'.current_priority = ANIMATIONS[ev'.req].priority
               /\ pet'.animation_timer]_vars

\* a forced request for BLINK (BACKGROUND) has been accepted
C22_Witness ==
    /\ ev.op = "request" /\ ev.force /\ ev.ret /\ ev.req = "BLINK"
    /\ FreshRun(pet, "BLINK") /\ pet.current_priority = BACKGROUND
    /\ pet.animation_timer

\* the next tick of the animation timer ends the current run naturally
NaturalEnd(s) == s.animation_timer /\ tick_ends_run(s)

\* C23: the tick that ends a run naturally, the animation being neither ANGER
\* nor an eating animation with a burp sample of at most 30, leaves the
\* animation timer stopped and the run state at the idle defaults.
C23_NaturalEndResets ==
    NaturalEnd(pet)
    => \A r \in BurpSamples :
         (/\ pet.current_animation # "ANGER"
          /\ (pet.current_animation \in EatingIds => r > BurpChance))
         => LET after == update_current_animation(files, pet, r) IN
            IdleRun(after) /\ ~after.animation_timer

\* an eating animation has just ended naturally into the idle defaults
C23_Witness ==
    /\ ev.op = "animation_tick" /\ ev.ended \in EatingIds
    /\ IdleRun(pet) /\ ~pet.animation_timer


\* the handler that just ran left ANXIETY playing afresh
AnxietyStarted == FreshRun(pet', "ANXIETY") /\ RunState(pet') # RunState(pet)

\* C24: a status tick that observes the force-sleep hour together with CPU or
\* GPU usage above 90 % leaves is_force_sleeping set and does not start
\* ANXIETY, and no status tick that finds and leaves is_force_sleeping set
\* starts ANXIETY.
C24_ForceSleepBeforeLoad ==
    [][/\ ev'.op = "status_sleep_hour_high"
          => (pet'.is_force_sleeping /\ ~AnxietyStarted)
       /\ (ev'.op \in {"status"} \cup SleepHourOps
           /\ pet.is_force_sleeping /\ pet'.is_force_sleeping)
          => ~AnxietyStarted]_vars

\* a status tick at the force-sleep hour under high usage has set the flag
\* over a playing BLINK and started no ANXIETY
C24_Witness ==
    /\ ev.op = "status_sleep_hour_high" /\ ev.req = NoneId
    /\ pet.is_force_sleeping
    /\ pet.current_animation = "BLINK" /\ pet.is_playing


\* C25: for every animation whose directory holds all its frame files, the
\* frame sequence the scheduler gets has as many frames as the descriptor
\* says, in every reachable state of the cache.
C25_FramesComplete ==
    \A a \in Catalog :
      ANIMATIONS[a].folder \in DOMAIN files
      => Len(get_animation_frames(files, pet, a).frames) = FrameCount(a)

\* C26: an animation marked as playing has its animation timer armed.
C26_PlayingIsAdvanced == pet.is_playing => pet.animation_timer

\* the pet sleeps without being force-sleeping
Sleeping(s) ==
    is_sleeping(s) /\ s.current_priority = SYSTEM /\ ~s.is_force_sleeping

\* C28: while the pet sleeps without being force-sleeping, a request without
\* force for an animation of priority SYSTEM or lower returns false and
\* leaves the pet asleep.
C28_SleepRejectsRequests ==
    [][(Sleeping(pet) /\ Requested /\ ~ev'.force
        /\ ANIMATIONS[ev'.req].priority <= SYSTEM)
       => (~ev'.ret /\ Sleeping(pet'))]_vars


\* a finite-loop animation is marked as playing in state s
PlaysFinite(s) ==
    /\ s.is_playing /\ s.current_animation \in Catalog
    /\ ANIMATIONS[s.current_animation].loops # Forever

\* C27: once the pet is left to its animation timer, a finite-loop animation
\* marked as playing leads to the idle state.
C27_PlayingEndsIdle ==
    (now = QuietAt /\ PlaysFinite(pet))
    ~> (~pet.is_playing /\ pet.current_animation = NoneId)


\* the descriptor of identifier a has a size_scale other than 1.0
Scaled(a) == a \in Catalog /\ ANIMATIONS[a].scale2 # 2

\* the handler that just ran stopped a playing scaled animation whose start
\* had saved the window size, by its natural end or by an accepted request
ScaledStopped ==
    /\ pet.is_playing /\ Scaled(pet.current_animation)
    /\ pet.anim_original_size # NoSize
    /\ \/ TickEnded(pet.current_animation)
       \/ ev'.req # NoneId /\ ev'.ret

\* C29: when a playing animation with a size_scale other than 1.0 ends
\* naturally or is preempted by an accepted request, the window gets the saved
\* size back and the saved size is cleared; an animation that follows with a
\* scale of its own saves that restored size and scales the base size.
C29_ScaledSizeRestored ==
    [][ScaledStopped
       => IF pet'.is_playing /\ Scaled(pet'.current_animation)
          THEN /\ pet'.anim_original_size = pet.anim_original_size
               /\ pet'.win_size =
                    (original_size * ANIMATIONS[pet'.current_animation].scale2) \div 2
          ELSE /\ pet'.win_size = pet.anim_original_size
               /\ pet'.anim_original_size = NoSize]_vars

\* ROLL, played at one and a half times the base size, has just ended
\* naturally and the window has its base size again
C29_Witness ==
    /\ ev.op = "animation_tick" /\ ev.ended = "ROLL"
    /\ pet.win_size = original_size /\ pet.anim_original_size = NoSize
    /\ IdleRun(pet)


\* C30: whenever the animation timer is armed with an animation marked as
\* playing over a non-empty frame list, the active identifier is a key of
\* ANIMATIONS, so that the lookup of the tick succeeds; no tick has raised
\* KeyError.
C30_TickFindsDescriptor ==
    /\ (pet.animation_timer /\ pet.is_playing /\ pet.cached_frames # <<>>)
       => pet.current_animation \in Catalog
    /\ ev.op # "KeyError"

\* the animation timer has advanced a playing animation at a time when the
\* idle limit has gone by since the last interaction
C30_Witness ==
    /\ ev.op = "animation_tick"
    /\ pet.is_playing /\ pet.cached_frames # <<>> /\ pet.current_index > 0
    /\ pet.current_animation \in Catalog
    /\ now - pet.last_interaction_time > IdleLimit


\* C31: in every reachable state, no active identifier implies priority IDLE,
\* nothing marked as playing, a loop counter of 0 and, when no free-roam
\* activity is selected, a frame cursor of 0; and an animation marked as
\* playing implies an active identifier.
C31_NoIdentifierMeansIdle ==
    /\ pet.current_animation = NoneId
       => /\ pet.current_priority = IDLE
          /\ ~pet.is_playing
          /\ pet.loop_count = 0
          /\ (pet.free_active_type = NoneId => pet.current_index = 0)
    /\ pet.is_playing => pet.current_animation # NoneId

\* free roaming has just been ended after a walk that moved the window and
\* the frame cursor: no identifier is active and the cursor is back at 0
C31_Witness ==
    /\ ev.op = "end_free_active" /\ pet.win_x # 0
    /\ pet.free_active_type = NoneId
    /\ pet.current_animation = NoneId /\ pet.current_index = 0
    /\ pet.current_priority = IDLE /\ ~pet.is_playing

==========================================================================
